---------------------------- MODULE Spec2Model ----------------------------
(***************************************************************************)
(* Model of src/backend/lambda.py: one Lambda handler that resolves an     *)
(* action from the invocation event, drives one EC2 instance through the   *)
(* compute API (describe / start / stop / waiter) and publishes SNS text   *)
(* notifications.                                                          *)
(*                                                                         *)
(* Python values are records tagged with their type (field t) and carrying *)
(* their payload.            Text is held as the sequence of its lexical   *)
(* units: single characters for action and state names, JSON lexemes for   *)
(* the text of a request body.                                             *)
(***************************************************************************)
EXTENDS Integers, Sequences, FiniteSets, TLC

VARIABLES
    pc,            \* control point of the handler ("idle", "L36", ..., "done", "raised")
    invocation,    \* number of invocations started so far
    event,         \* the invocation event
    action,        \* local `action` after line 45 (sequence of characters)
    current_state, \* local `current_state` / `state` (lines 55, 76)
    exc,           \* the exception being handled (line 81) or escaping the handler
    attempts,      \* polls made by the waiter in the current wait
    result,        \* the value returned by lambda_handler
    calls,         \* outbound calls of this invocation, in order
    compute,       \* what the compute service answered (fixed once observed)
    first          \* outcome of the first invocation

vars == <<pc, invocation, event, action, current_state, exc, attempts,
          result, calls, compute, first>>

----------------------------------------------------------------------------
(* Bounds and program constants *)

\* Invocations of the handler on the same event that the model follows.
MaxInvocations == 2

\* WaiterConfig={'Delay': 10, 'MaxAttempts': 12}
MaxAttempts == 12
Delay == 10

----------------------------------------------------------------------------
(* Python values *)

None == [t |-> "NoneType"]
PyStr(s) == [t |-> "str", s |-> s]
PyInt(n) == [t |-> "int", n |-> n]
PyList(xs) == [t |-> "list", items |-> xs]
PyDict(f) == [t |-> "dict", d |-> f]
EmptyDict == PyDict([k \in {} |-> None])

\* bool(x)
Truthy(x) ==
    CASE x.t = "NoneType" -> FALSE
      [] x.t = "str"      -> Len(x.s) > 0
      [] x.t = "int"      -> x.n # 0
      [] x.t = "list"     -> Len(x.items) > 0
      [] x.t = "dict"     -> DOMAIN x.d # {}

\* d.get(key, default) on a dict d
Get(dict, key, default) == IF key \in DOMAIN dict.d THEN dict.d[key] ELSE default

\* x or y
Or(x, y) == IF Truthy(x) THEN x ELSE y

----------------------------------------------------------------------------
(* str.lower() and str.upper(), character by character *)

LowerOf ==
    [c \in {"A","B","C","D","E","F","G","H","I","J","K","L","M",
            "N","O","P","Q","R","S","T","U","V","W","X","Y","Z"} |->
        CASE c = "A" -> "a" [] c = "B" -> "b" [] c = "C" -> "c" [] c = "D" -> "d"
          [] c = "E" -> "e" [] c = "F" -> "f" [] c = "G" -> "g" [] c = "H" -> "h"
          [] c = "I" -> "i" [] c = "J" -> "j" [] c = "K" -> "k" [] c = "L" -> "l"
          [] c = "M" -> "m" [] c = "N" -> "n" [] c = "O" -> "o" [] c = "P" -> "p"
          [] c = "Q" -> "q" [] c = "R" -> "r" [] c = "S" -> "s" [] c = "T" -> "t"
          [] c = "U" -> "u" [] c = "V" -> "v" [] c = "W" -> "w" [] c = "X" -> "x"
          [] c = "Y" -> "y" [] c = "Z" -> "z"]

LowerChar(c) == IF c \in DOMAIN LowerOf THEN LowerOf[c] ELSE c

UpperChar(c) ==
    IF \E u \in DOMAIN LowerOf : LowerOf[u] = c
    THEN CHOOSE u \in DOMAIN LowerOf : LowerOf[u] = c
    ELSE c

Lower(s) == [i \in 1..Len(s) |-> LowerChar(s[i])]
Upper(s) == [i \in 1..Len(s) |-> UpperChar(s[i])]

----------------------------------------------------------------------------
(* json.loads on the text of a body.  The text is the sequence of its JSON *)
(* lexemes; the documents handled are scalars, the empty array, and flat   *)
(* objects whose members are scalars.  Anything else is a decode error.    *)

Tok(p) == [tok |-> p]
TStr(s) == [tok |-> "string", s |-> s]
TNum(n) == [tok |-> "number", n |-> n]

IsScalarTok(k) == k.tok \in {"null", "string", "number"}

ScalarOf(k) ==
    CASE k.tok = "null"   -> None
      [] k.tok = "string" -> PyStr(k.s)
      [] k.tok = "number" -> PyInt(k.n)

JsonError == [ok |-> FALSE]
JsonValue(x) == [ok |-> TRUE, val |-> x]

\* members of an object from position i on: string ":" scalar ("," ... )* "}"
\* A repeated key keeps its last value, as a Python dict does.
RECURSIVE JsonMembers(_, _, _)
JsonMembers(toks, i, acc) ==
    IF i + 3 > Len(toks) THEN JsonError
    ELSE IF toks[i].tok # "string" \/ toks[i+1] # Tok(":") \/ ~IsScalarTok(toks[i+2])
    THEN JsonError
    ELSE LET key  == toks[i].s
             acc2 == [k \in DOMAIN acc \cup {key} |->
                         IF k = key THEN ScalarOf(toks[i+2]) ELSE acc[k]]
         IN  IF toks[i+3] = Tok("}")
             THEN (IF i + 3 = Len(toks) THEN JsonValue(PyDict(acc2)) ELSE JsonError)
             ELSE IF toks[i+3] = Tok(",") THEN JsonMembers(toks, i + 4, acc2)
             ELSE JsonError

JsonLoads(toks) ==
    IF Len(toks) = 0 THEN JsonError
    ELSE IF Len(toks) = 1
    THEN (IF IsScalarTok(toks[1]) THEN JsonValue(ScalarOf(toks[1])) ELSE JsonError)
    ELSE IF toks = <<Tok("["), Tok("]")>> THEN JsonValue(PyList(<<>>))
    ELSE IF toks = <<Tok("{"), Tok("}")>> THEN JsonValue(EmptyDict)
    ELSE IF toks[1] = Tok("{") THEN JsonMembers(toks, 2, [k \in {} |-> None])
    ELSE JsonError

----------------------------------------------------------------------------
(* Text constants *)

k_action == <<"a","c","t","i","o","n">>
k_body == <<"b","o","d","y">>
k_queryStringParameters ==
    <<"q","u","e","r","y","S","t","r","i","n","g",
      "P","a","r","a","m","e","t","e","r","s">>
k_other == <<"i","d">>

s_empty == <<>>
s_test == <<"t","e","s","t">>
s_start == <<"s","t","a","r","t">>
s_stop == <<"s","t","o","p">>
s_running == <<"r","u","n","n","i","n","g">>
s_stopped == <<"s","t","o","p","p","e","d">>
s_pending == <<"p","e","n","d","i","n","g">>

----------------------------------------------------------------------------
(* Action extraction, lines 36-45 *)

Value(x) == [raised |-> FALSE, val |-> x]
Raise(e) == [raised |-> TRUE, exc |-> e]

\* line 38: event.get('action') or (event.get('queryStringParameters') or {}).get('action','')
\* .get on a value that is not a mapping is an AttributeError.
Line38(ev) ==
    LET top == Get(ev, k_action, None)
        qsp == Or(Get(ev, k_queryStringParameters, None), EmptyDict)
    IN  IF Truthy(top) THEN Value(top)
        ELSE IF qsp.t # "dict" THEN Raise("AttributeError")
        ELSE Value(Get(qsp, k_action, PyStr(s_empty)))

\* Variant: the body is consulted only when the event has no
\* queryStringParameters at all.
Line39ElseIf(ev, act) ==
    LET body == Get(ev, k_body, None)
        doc  == JsonLoads(body.s)
    IN  IF Truthy(act) \/ ~Truthy(body) THEN act
        ELSE IF Truthy(Get(ev, k_queryStringParameters, None)) THEN act
        ELSE IF body.t # "str" THEN act
        ELSE IF ~doc.ok THEN act
        ELSE IF doc.val.t # "dict" THEN act
        ELSE Get(doc.val, k_action, PyStr(s_empty))

\* lines 39-43: the body is consulted only when no action was found and the
\* body is truthy; whatever goes wrong in the try block leaves `action` as is
\* (json.loads of a non-string: TypeError; malformed text: JSONDecodeError;
\* a document that is not an object: AttributeError on .get).
Line39(ev, act) ==
    LET body == Get(ev, k_body, None)
        doc  == JsonLoads(body.s)
    IN  IF Truthy(act) \/ ~Truthy(body) THEN act
        ELSE IF body.t # "str" THEN act
        ELSE IF ~doc.ok THEN act
        ELSE IF doc.val.t # "dict" THEN act
        ELSE Get(doc.val, k_action, PyStr(s_empty))

\* line 45: (action or "").lower(); .lower() exists on str only.
Line45(act) ==
    LET a == Or(act, PyStr(s_empty))
    IN  IF a.t # "str" THEN Raise("AttributeError") ELSE Value(Lower(a.s))

\* lines 36-45 as a whole
ExtractAction(ev) ==
    IF ev.t # "dict" THEN Line45(PyStr(s_empty))
    ELSE LET a == Line38(ev)
         IN  IF a.raised THEN a ELSE Line45(Line39(ev, a.val))

----------------------------------------------------------------------------
(* Invocation events *)

Absent == [t |-> "absent"]

\* The dict holding the given fields; a field given as Absent is not a key.
Event(top, qsp, body) ==
    LET given   == {<<k_action, top>>, <<k_queryStringParameters, qsp>>, <<k_body, body>>}
        present == {p \in given : p[2] # Absent}
    IN  PyDict([k \in {p[1] : p \in present} |->
                  (CHOOSE p \in present : p[1] = k)[2]])

TopActions ==
    { Absent, None, PyStr(s_empty),
      PyStr(s_start), PyStr(<<"S","T","A","R","T">>),
      PyStr(<<"S","t","o","P">>), PyStr(<<"T","e","s","t">>),
      PyStr(<<"r","e","b","o","o","t">>), PyInt(5) }

QueryStrings ==
    { Absent, None, EmptyDict,
      PyDict(k_action :> PyStr(<<"S","t","a","r","t">>)),
      PyDict(k_action :> PyStr(s_stop)),
      PyDict(k_action :> PyStr(s_empty)),
      PyDict(k_action :> PyInt(5)),
      PyDict(k_other :> PyStr(s_start)),
      PyStr(<<"x">>), PyList(<<>>) }

\* {"action":<value>}
BodyWith(valueTok) ==
    PyStr(<<Tok("{"), TStr(k_action), Tok(":"), valueTok, Tok("}")>>)

Bodies ==
    { Absent, PyStr(<<>>),
      BodyWith(TStr(<<"S","T","A","R","T">>)),
      BodyWith(TStr(s_stop)),
      BodyWith(TStr(s_test)),
      BodyWith(Tok("null")),
      BodyWith(TNum(5)),
      \* {"id":"start"}
      PyStr(<<Tok("{"), TStr(k_other), Tok(":"), TStr(s_start), Tok("}")>>),
      \* {"action":"stop","action":"Start"}
      PyStr(<<Tok("{"), TStr(k_action), Tok(":"), TStr(s_stop), Tok(","),
              TStr(k_action), Tok(":"), TStr(<<"S","t","a","r","t">>), Tok("}")>>),
      \* {"action":"start"   (truncated)
      PyStr(<<Tok("{"), TStr(k_action), Tok(":"), TStr(s_start)>>),
      \* []
      PyStr(<<Tok("["), Tok("]")>>),
      \* null
      PyStr(<<Tok("null")>>),
      PyInt(5) }

\* Under a top-level action that decides alone, the other two fields range over
\* fewer values.
FewQueryStrings == { Absent, PyDict(k_action :> PyStr(s_stop)), PyStr(<<"x">>) }
FewBodies == { Absent, BodyWith(TStr(s_test)), PyInt(5) }

Events ==
    { Event(top, qsp, body) :
        top \in {x \in TopActions : x = Absent \/ ~Truthy(x)}, qsp \in QueryStrings, body \in Bodies }
    \cup
    { Event(top, qsp, body) :
        top \in {x \in TopActions : x # Absent /\ Truthy(x)}, qsp \in FewQueryStrings, body \in FewBodies }
    \cup { None, PyStr(s_start), PyList(<<>>) }

----------------------------------------------------------------------------
(* The two services *)

\* sns.publish either returns a response carrying a MessageId or raises.
SnsResponses ==
    { [raised |-> FALSE, MessageId |-> "message-id"],
      [raised |-> TRUE, exc |-> "sns.publish failed"] }

\* ec2.describe_instances
DescribeResponse(name) ==
    [raised |-> FALSE,
     Reservations |-> << [Instances |-> << [State |-> [Name |-> name]] >>] >>]

InstanceStates == {s_running, s_stopped, s_pending}

DescribeResponses ==
    { DescribeResponse(name) : name \in InstanceStates }
    \cup { [raised |-> FALSE, Reservations |-> <<>>],
           [raised |-> TRUE, exc |-> "ClientError: DescribeInstances"] }

\* ec2.start_instances / ec2.stop_instances
CommandResponses ==
    { [raised |-> FALSE],
      [raised |-> TRUE, exc |-> "ClientError: IncorrectInstanceState"] }

\* What one poll of a waiter sees: the target state, a state or an error that
\* makes the waiter give up, or a state that makes it poll again.
PollResults == {"success", "failure", "retry"}

NoBehaviour == [describe |-> <<>>, command |-> <<>>, polls |-> <<>>]

\* The answers the compute service may give: any, until it has answered once
\* for this event; the same again afterwards.
DescribeAnswers ==
    IF compute.describe = <<>> THEN DescribeResponses ELSE {compute.describe[1]}
CommandAnswers ==
    IF compute.command = <<>> THEN CommandResponses ELSE {compute.command[1]}
PollAnswers(n) ==
    IF n > Len(compute.polls) THEN PollResults ELSE {compute.polls[n]}

----------------------------------------------------------------------------
(* Notifications *)

MsgTest           == [kind |-> "fixed", text |-> "TEST: EC2 Monitor - Instance i-0e068c43430210bff"]
MsgAlreadyRunning == [kind |-> "fixed", text |-> "EC2 - ALREADY RUNNING"]
MsgStarting       == [kind |-> "fixed", text |-> "EC2 - STARTING..."]
MsgStarted        == [kind |-> "fixed", text |-> "EC2 - STARTED SUCCESS"]
MsgStopping       == [kind |-> "fixed", text |-> "EC2 - STOPPING..."]
MsgStopped        == [kind |-> "fixed", text |-> "EC2 - STOPPED SUCCESS"]
\* lines 77-78: f"{state_icon} EC2 - {state.upper()}"
MsgStatus(state)  == [kind |-> "status",
                      icon |-> IF state = s_running THEN "green" ELSE "stop",
                      state |-> Upper(state)]
\* line 82: error_msg = f"EC2 ERROR: {str(e)}"
MsgError(e)       == [kind |-> "error", text |-> e]

\* publish_sms, lines 13-30: the value it returns given what sns.publish did.
\* The except clause turns a raise of sns.publish, or of the read of
\* response['MessageId'] on line 26, into False.
publish_sms(message, response) ==
    IF response.raised THEN FALSE ELSE "MessageId" \in DOMAIN response

\* The record of one publish_sms call in `calls`.
SnsCall(message, response) ==
    [svc |-> "sns", op |-> "publish", msg |-> message,
     delivered |-> ~response.raised,
     returned |-> publish_sms(message, response)]

Ec2Call(operation) == [svc |-> "ec2", op |-> operation]

\* lines 62-63 / 70-71
WaitCall(waiter) ==
    [svc |-> "ec2", op |-> "wait", waiter |-> waiter,
     config |-> [Delay |-> Delay, MaxAttempts |-> MaxAttempts]]

\* lines 55, 76: resp['Reservations'][0]['Instances'][0]['State']['Name']
StateName(resp) ==
    IF resp.raised THEN Raise(resp.exc)
    ELSE IF Len(resp.Reservations) = 0 THEN Raise("IndexError: list index out of range")
    ELSE IF Len(resp.Reservations[1].Instances) = 0
    THEN Raise("IndexError: list index out of range")
    ELSE Value(resp.Reservations[1].Instances[1].State.Name)

----------------------------------------------------------------------------
(* The handler *)

NoResult == [result |-> "(none)"]
NoOutcome == [result |-> NoResult, exc |-> "", ec2 |-> <<>>, sns |-> <<>>]

Ec2Calls(cs) == SelectSeq(cs, LAMBDA c : c.svc = "ec2")
SnsCalls(cs) == SelectSeq(cs, LAMBDA c : c.svc = "sns")

\* What an invocation did apart from its notifications: the returned record
\* without sms_sent, the exception that escaped, and the compute calls.
Primary(r) == IF r.result = "test" THEN [result |-> "test"] ELSE r
Delivered(cs) == [i \in 1..Len(SnsCalls(cs)) |-> SnsCalls(cs)[i].delivered]
Outcome ==
    [result |-> Primary(result), exc |-> exc, ec2 |-> Ec2Calls(calls),
     sns |-> Delivered(calls)]

Init ==
    /\ pc = "idle"
    /\ invocation = 0
    /\ event = None
    /\ action = s_empty
    /\ current_state = s_empty
    /\ exc = ""
    /\ attempts = 0
    /\ result = NoResult
    /\ calls = <<>>
    /\ compute = NoBehaviour
    /\ first = NoOutcome

\* The runtime calls lambda_handler(event, context): with any event the first
\* time, with the same event again afterwards.
Invoke ==
    /\ pc \in {"idle", "done", "raised"}
    /\ invocation < MaxInvocations
    /\ \E ev \in (IF invocation = 0 THEN Events ELSE {event}) : event' = ev
    /\ invocation' = invocation + 1
    /\ first' = IF invocation = 1 THEN Outcome ELSE first
    /\ pc' = "L36"
    /\ action' = s_empty
    /\ current_state' = s_empty
    /\ exc' = ""
    /\ attempts' = 0
    /\ result' = NoResult
    /\ calls' = <<>>
    /\ UNCHANGED compute

\* lines 36-46; an exception here is outside the try block and leaves the handler
Extract ==
    /\ pc = "L36"
    /\ LET a == ExtractAction(event)
       IN  IF a.raised
           THEN pc' = "raised" /\ exc' = a.exc /\ UNCHANGED action
           ELSE pc' = "L48" /\ action' = a.val /\ UNCHANGED exc
    /\ UNCHANGED <<invocation, event, current_state, attempts, result, calls,
                   compute, first>>

\* the tests of lines 49, 53, 67 and the fall-through to line 75
Branch(act) ==
    IF act = s_test THEN "L50"
    ELSE IF act = s_start THEN "L54"
    ELSE IF act = s_stop THEN "L68"
    ELSE "L75"

Dispatch ==
    /\ pc = "L48"
    /\ pc' = Branch(action)
    /\ UNCHANGED <<invocation, event, action, current_state, exc, attempts,
                   result, calls, compute, first>>

\* One publish_sms(message) call of the handler that leads to line `next`.
Notify(message, next) ==
    /\ \E response \in SnsResponses :
          calls' = Append(calls, SnsCall(message, response))
    /\ pc' = next

\* Variant: a failed publish replaces the record returned.
NotifyAndReturnMasking(message, record) ==
    /\ \E response \in SnsResponses :
          /\ calls' = Append(calls, SnsCall(message, response))
          /\ result' = IF response.raised
                       THEN [result |-> "error", error |-> MsgError(response.exc)]
                       ELSE record
    /\ pc' = "done"

\* One publish_sms(message) call followed by `return record`.
NotifyAndReturn(message, record) ==
    /\ Notify(message, "done")
    /\ result' = record

\* lines 50-51
TestBranch ==
    /\ pc = "L50"
    /\ \E response \in SnsResponses :
          /\ calls' = Append(calls, SnsCall(MsgTest, response))
          /\ result' = [result |-> "test", sms_sent |-> publish_sms(MsgTest, response)]
    /\ pc' = "done"
    /\ UNCHANGED <<invocation, event, action, current_state, exc, attempts,
                   compute, first>>

\* Variant: line 56 does not test for 'running'.
AfterStartDescribeNoTest(state) == "L60"

\* Where lines 54-56 go once the state is known.
AfterStartDescribe(state) == IF state = s_running THEN "L57" ELSE "L60"

\* Where lines 75-76 go once the state is known.
AfterStatusDescribe(state) == "L77"

\* A describe_instances call at `here` (lines 54-55, 75-76): the call, the
\* state read from its response, and the except clause if either raises.
DescribeAt(here) ==
    /\ pc = here
    /\ \E resp \in DescribeAnswers :
          /\ compute' = [compute EXCEPT !.describe = <<resp>>]
          /\ calls' = Append(calls, Ec2Call("describe_instances"))
          /\ LET name == StateName(resp)
             IN  IF name.raised
                 THEN pc' = "L82" /\ exc' = name.exc /\ UNCHANGED current_state
                 ELSE /\ pc' = IF here = "L54" THEN AfterStartDescribe(name.val)
                                               ELSE AfterStatusDescribe(name.val)
                      /\ current_state' = name.val
                      /\ UNCHANGED exc
    /\ UNCHANGED <<invocation, event, action, attempts, result, first>>

\* lines 54-56
StartDescribe == DescribeAt("L54")

\* Variant: line 58 is missing, and the handler goes on to line 60.
AlreadyRunningFallsThrough ==
    /\ pc = "L57"
    /\ Notify(MsgAlreadyRunning, "L60")
    /\ UNCHANGED <<invocation, event, action, current_state, exc, attempts,
                   result, compute, first>>

\* lines 57-58
AlreadyRunning ==
    /\ pc = "L57"
    /\ NotifyAndReturn(MsgAlreadyRunning, [result |-> "already_running"])
    /\ UNCHANGED <<invocation, event, action, current_state, exc, attempts,
                   compute, first>>

\* line 60
StartNotify ==
    /\ pc = "L60"
    /\ Notify(MsgStarting, "L61")
    /\ UNCHANGED <<invocation, event, action, current_state, exc, attempts,
                   result, compute, first>>

\* ec2.start_instances / ec2.stop_instances at `here` (lines 61, 69)
CommandAt(here, operation, next) ==
    /\ pc = here
    /\ \E resp \in CommandAnswers :
          /\ compute' = [compute EXCEPT !.command = <<resp>>]
          /\ calls' = Append(calls, Ec2Call(operation))
          /\ IF resp.raised
             THEN pc' = "L82" /\ exc' = resp.exc
             ELSE pc' = next /\ UNCHANGED exc
    /\ UNCHANGED <<invocation, event, action, current_state, attempts, result, first>>

\* Variant: line 61 issues the stop command.
StartInstancesStops == CommandAt("L61", "stop_instances", "L62")

\* line 61
StartInstances == CommandAt("L61", "start_instances", "L62")

\* get_waiter(name) and the call of waiter.wait (lines 62-63, 70-71)
WaitAt(here, waiter, next) ==
    /\ pc = here
    /\ calls' = Append(calls, WaitCall(waiter))
    /\ attempts' = 0
    /\ pc' = next
    /\ UNCHANGED <<invocation, event, action, current_state, exc, result,
                   compute, first>>

\* lines 62-63
StartWait == WaitAt("L62", "instance_running", "W63")

\* Variant: a waiter that returns when its attempts are used up.
WaiterStepLenient(n, seen) ==
    IF seen = "success" THEN "return"
    ELSE IF seen = "failure" THEN "WaiterError: Waiter encountered a terminal failure state"
    ELSE IF n >= MaxAttempts THEN "return"
    ELSE "again"

\* What the waiter does after its n-th poll saw `seen`: return, raise
\* WaiterError, or sleep Delay seconds and poll again.
WaiterStep(n, seen) ==
    IF seen = "success" THEN "return"
    ELSE IF seen = "failure" THEN "WaiterError: Waiter encountered a terminal failure state"
    ELSE IF n >= MaxAttempts THEN "WaiterError: Max attempts exceeded"
    ELSE "again"

\* One poll of waiter.wait (lines 63, 71)
WaiterPoll ==
    /\ pc \in {"W63", "W71"}
    /\ attempts' = attempts + 1
    /\ \E seen \in PollAnswers(attempts + 1) :
          /\ compute' = [compute EXCEPT !.polls =
                            IF attempts + 1 > Len(@) THEN Append(@, seen) ELSE @]
          /\ LET step == WaiterStep(attempts + 1, seen)
             IN  IF step = "return"
                 THEN pc' = (IF pc = "W63" THEN "L64" ELSE "L72") /\ UNCHANGED exc
                 ELSE IF step = "again"
                 THEN UNCHANGED <<pc, exc>>
                 ELSE pc' = "L82" /\ exc' = step
    /\ UNCHANGED <<invocation, event, action, current_state, result, calls, first>>

\* lines 64-65
StartSuccess ==
    /\ pc = "L64"
    /\ NotifyAndReturn(MsgStarted, [result |-> "started"])
    /\ UNCHANGED <<invocation, event, action, current_state, exc, attempts,
                   compute, first>>

\* line 68
StopNotify ==
    /\ pc = "L68"
    /\ Notify(MsgStopping, "L69")
    /\ UNCHANGED <<invocation, event, action, current_state, exc, attempts,
                   result, compute, first>>

\* line 69
StopInstances == CommandAt("L69", "stop_instances", "L70")

\* Variant: line 70 takes the instance_running waiter.
StopWaitRunning == WaitAt("L70", "instance_running", "W71")

\* lines 70-71
StopWait == WaitAt("L70", "instance_stopped", "W71")

\* lines 72-73
StopSuccess ==
    /\ pc = "L72"
    /\ NotifyAndReturn(MsgStopped, [result |-> "stopped"])
    /\ UNCHANGED <<invocation, event, action, current_state, exc, attempts,
                   compute, first>>

\* lines 75-76
StatusDescribe == DescribeAt("L75")

\* lines 77-79
StatusNotify ==
    /\ pc = "L77"
    /\ NotifyAndReturn(MsgStatus(current_state),
                       [result |-> "status", state |-> current_state])
    /\ UNCHANGED <<invocation, event, action, current_state, exc, attempts,
                   compute, first>>

\* Variant: a failed publish of the error message leaves the handler.
ErrorBranchUnguarded ==
    /\ pc = "L82"
    /\ \E response \in SnsResponses :
          /\ calls' = Append(calls, SnsCall(MsgError(exc), response))
          /\ IF response.raised
             THEN pc' = "raised" /\ exc' = response.exc /\ UNCHANGED result
             ELSE /\ pc' = "done"
                  /\ result' = [result |-> "error", error |-> MsgError(exc)]
                  /\ UNCHANGED exc
    /\ UNCHANGED <<invocation, event, action, current_state, attempts, compute, first>>

\* lines 81-84
ErrorBranch ==
    /\ pc = "L82"
    /\ NotifyAndReturn(MsgError(exc), [result |-> "error", error |-> MsgError(exc)])
    /\ UNCHANGED <<invocation, event, action, current_state, exc, attempts,
                   compute, first>>

Next ==
    \/ Invoke
    \/ Extract
    \/ Dispatch
    \/ TestBranch
    \/ StartDescribe
    \/ AlreadyRunning
    \/ StartNotify
    \/ StartInstances
    \/ StartWait
    \/ WaiterPoll
    \/ StartSuccess
    \/ StopNotify
    \/ StopInstances
    \/ StopWait
    \/ StopSuccess
    \/ StatusDescribe
    \/ StatusNotify
    \/ ErrorBranch

Spec == Init /\ [][Next]_vars

----------------------------------------------------------------------------
(* Vocabulary of the properties *)

Returned == pc = "done"
Finished == pc \in {"done", "raised"}

\* A call without the outcome of its publish
Shape(c) == IF c.svc = "sns" THEN [svc |-> "sns", op |-> "publish", msg |-> c.msg] ELSE c
Shapes(cs) == [i \in 1..Len(cs) |-> Shape(cs[i])]
Publish(message) == [svc |-> "sns", op |-> "publish", msg |-> message]
Messages(cs) == [i \in 1..Len(SnsCalls(cs)) |-> SnsCalls(cs)[i].msg]

Count(cs, ops) == Len(SelectSeq(cs, LAMBDA c : c.svc = "ec2" /\ c.op \in ops))
Called(operation) == Count(calls, {operation}) > 0

\* What the compute service did in this invocation
DescribeRaised == Called("describe_instances") /\ compute.describe[1].raised
DescribeReported ==
    Called("describe_instances") /\ ~StateName(compute.describe[1]).raised
ReportedState == StateName(compute.describe[1]).val
CommandCalled == Called("start_instances") \/ Called("stop_instances")
CommandRaised == CommandCalled /\ compute.command[1].raised
CommandSucceeded == CommandCalled /\ ~compute.command[1].raised
WaitOver == Called("wait") /\ attempts > 0 /\ pc \notin {"W63", "W71"}
WaitSucceeded == WaitOver /\ compute.polls[attempts] = "success"
WaitRaised == WaitOver /\ compute.polls[attempts] # "success"
WaitError == WaiterStep(attempts, compute.polls[attempts])

----------------------------------------------------------------------------
(* Properties *)

\* C1: an invocation with action 'start' in which describe_instances reports a
\* state other than 'running' and every provider call succeeds makes exactly
\* these calls, in this order: describe_instances, the 'STARTING...'
\* notification, one start_instances, the instance_running waiter, the
\* 'STARTED SUCCESS' notification; it makes no stop_instances call and returns
\* {result: 'started'}.
C1_StartWhenNotRunning ==
    (Returned /\ action = s_start
       /\ DescribeReported /\ ReportedState # s_running
       /\ CommandSucceeded /\ WaitSucceeded)
    => /\ result = [result |-> "started"]
       /\ Shapes(calls) = << Ec2Call("describe_instances"),
                             Publish(MsgStarting),
                             Ec2Call("start_instances"),
                             WaitCall("instance_running"),
                             Publish(MsgStarted) >>
       /\ Count(calls, {"start_instances"}) = 1
       /\ Count(calls, {"stop_instances"}) = 0
       /\ Len(SnsCalls(calls)) = 2

\* C1 witness: a start of a stopped instance has returned after a wait of
\* several polls, with its first notification lost.
C1_Witness ==
    /\ Returned /\ action = s_start
    /\ DescribeReported /\ ReportedState = s_stopped
    /\ CommandSucceeded /\ WaitSucceeded /\ attempts = 3
    /\ Delivered(calls) = <<FALSE, TRUE>>

\* C2: an invocation with action 'start' in which describe_instances reports
\* 'running' never calls start_instances or stop_instances, invokes no waiter,
\* and returns {result: 'already_running'}.
C2_StartWhenRunning ==
    (action = s_start /\ DescribeReported /\ ReportedState = s_running)
    => /\ Count(calls, {"start_instances", "stop_instances", "wait"}) = 0
       /\ Returned
          => /\ result = [result |-> "already_running"]
             /\ Shapes(calls) = << Ec2Call("describe_instances"),
                                   Publish(MsgAlreadyRunning) >>

\* C2 witness: a start of a running instance has returned.
C2_Witness ==
    /\ Returned /\ action = s_start
    /\ DescribeReported /\ ReportedState = s_running
    /\ result = [result |-> "already_running"]

\* C3: an invocation with action 'stop' in which every provider call succeeds
\* makes exactly these calls, in this order, whatever the state of the
\* instance: the 'STOPPING...' notification, one stop_instances, the
\* instance_stopped waiter, the 'STOPPED SUCCESS' notification; it makes no
\* start_instances call and returns {result: 'stopped'}.
C3_Stop ==
    (Returned /\ action = s_stop /\ CommandSucceeded /\ WaitSucceeded)
    => /\ result = [result |-> "stopped"]
       /\ Shapes(calls) = << Publish(MsgStopping),
                             Ec2Call("stop_instances"),
                             WaitCall("instance_stopped"),
                             Publish(MsgStopped) >>
       /\ Count(calls, {"stop_instances"}) = 1
       /\ Count(calls, {"start_instances"}) = 0

\* C3 witness: a stop has returned after the waiter's last permitted poll.
C3_Witness ==
    /\ Returned /\ action = s_stop
    /\ CommandSucceeded /\ WaitSucceeded /\ attempts = MaxAttempts
    /\ result = [result |-> "stopped"]

ProviderRaised == DescribeRaised \/ CommandRaised \/ WaitRaised
ProviderError ==
    IF DescribeRaised THEN compute.describe[1].exc
    ELSE IF CommandRaised THEN compute.command[1].exc
    ELSE WaitError

ErrorMessages(cs) == SelectSeq(Messages(cs), LAMBDA m : m.kind = "error")

\* C4: in the start, stop and status branches, once a provider call
\* (describe_instances, start_instances, stop_instances, a waiter's wait) has
\* raised, the handler makes no further provider call, attempts exactly one
\* notification of the error text as its last call, and returns
\* {result: 'error', error: <the error text>}, whether that publish succeeds
\* or fails.
C4_ProviderErrorReturned ==
    ProviderRaised
    => /\ pc \in {"L82", "done"}
       /\ exc = ProviderError
       /\ calls[IF Returned THEN Len(calls) - 1 ELSE Len(calls)].svc = "ec2"
       /\ Returned
          => /\ result = [result |-> "error", error |-> MsgError(ProviderError)]
             /\ Shape(calls[Len(calls)]) = Publish(MsgError(ProviderError))
             /\ Len(ErrorMessages(calls)) = 1

\* C4 witness: a stop whose waiter used up its attempts has returned the
\* error although the error notification was lost.
C4_Witness ==
    /\ Returned /\ action = s_stop /\ WaitRaised /\ attempts = MaxAttempts
    /\ result.result = "error"
    /\ ~calls[Len(calls)].delivered

ResultKinds == {"test", "already_running", "started", "stopped", "status", "error"}

\* C5: every invocation ends by returning a record whose 'result' is one of
\* test, already_running, started, stopped, status, error; no exception leaves
\* lambda_handler.
C5_NothingEscapes ==
    /\ pc # "raised"
    /\ Returned => result.result \in ResultKinds

\* C6: publish_sms returns true exactly when sns.publish succeeded; a second
\* invocation on the same event, answered alike by the compute service, ends
\* like the first (same returned record but for sms_sent, same escaping
\* exception, same compute calls) whatever its publishes did; and sms_sent of
\* the test branch is the outcome of its publish.
C6_NotificationsDoNotInterfere ==
    /\ \A i \in 1..Len(calls) :
          calls[i].svc = "sns" => calls[i].returned = calls[i].delivered
    /\ (Finished /\ invocation >= 2)
       => /\ Outcome.result = first.result
          /\ Outcome.exc = first.exc
          /\ Outcome.ec2 = first.ec2
    /\ (Returned /\ result.result = "test")
       => result.sms_sent = calls[Len(calls)].delivered

\* C6 witness: a start whose two notifications were delivered is run again
\* with both notifications lost, and has returned.
C6_Witness ==
    /\ invocation = 2 /\ Returned
    /\ result = [result |-> "started"]
    /\ first.sns = <<TRUE, TRUE>>
    /\ Delivered(calls) = <<FALSE, FALSE>>

\* The reference resolution: the three places an action may be carried in,
\* in order, and the lowercase of the first non-empty text among them.
RefTop(ev) == Get(ev, k_action, None)
RefQuery(ev) ==
    LET qsp == Get(ev, k_queryStringParameters, None)
    IN  IF qsp.t = "dict" THEN Get(qsp, k_action, None) ELSE None
RefBody(ev) ==
    LET body == Get(ev, k_body, None)
    IN  IF body.t = "str" /\ JsonLoads(body.s).ok /\ JsonLoads(body.s).val.t = "dict"
        THEN Get(JsonLoads(body.s).val, k_action, None)
        ELSE None
RefCandidates(ev) ==
    IF ev.t = "dict" THEN <<RefTop(ev), RefQuery(ev), RefBody(ev)>> ELSE <<>>

RECURSIVE FirstNonEmpty(_)
FirstNonEmpty(cands) ==
    IF cands = <<>> THEN s_empty
    ELSE IF Head(cands).t = "str" /\ Len(Head(cands).s) > 0 THEN Head(cands).s
    ELSE FirstNonEmpty(Tail(cands))

RefAction(ev) == Lower(FirstNonEmpty(RefCandidates(ev)))

\* Events of the documented shapes: every action carried is text or null, and
\* queryStringParameters is a mapping, null or missing.
Shaped(ev) ==
    /\ \A i \in 1..Len(RefCandidates(ev)) : RefCandidates(ev)[i].t \in {"str", "NoneType"}
    /\ ev.t = "dict" => Get(ev, k_queryStringParameters, None).t \in {"dict", "NoneType"}

\* C7: for events of the documented shapes the action the handler resolves is
\* the lowercase of the first non-empty value among the top-level 'action',
\* queryStringParameters['action'] and the 'action' of the JSON-parsed body,
\* in that order, and the branch taken is the one of that action.
C7_ActionResolution ==
    (Shaped(event) /\ pc \notin {"idle", "L36"})
    => /\ pc # "raised"
       /\ action = RefAction(event)
       /\ pc = "L50" => RefAction(event) = s_test
       /\ pc = "L54" => RefAction(event) = s_start
       /\ pc = "L68" => RefAction(event) = s_stop
       /\ pc = "L75" => RefAction(event) \notin {s_test, s_start, s_stop}

\* C7 witness: the event carries a queryStringParameters mapping without an
\* action and a body {"action":"START"}, and the start branch was taken.
C7_Witness ==
    /\ event = Event(Absent, PyDict(k_other :> PyStr(s_start)),
                     BodyWith(TStr(<<"S","T","A","R","T">>)))
    /\ pc = "L54"
    /\ action = s_start

\* An event that carries no action: none at the top level, none in the query
\* parameters, and a body that is missing, is not a JSON object, or is a JSON
\* object without one.
Blank(x) == x.t = "NoneType" \/ (x.t = "str" /\ Len(x.s) = 0)
NoActionAnywhere(ev) == \A i \in 1..Len(RefCandidates(ev)) : Blank(RefCandidates(ev)[i])

\* C8: an event that carries no action is answered by the status branch: the
\* handler does not raise, calls describe_instances once, calls neither
\* start_instances nor stop_instances, and returns {result: 'status', state:
\* <the state reported>}.
C8_NoActionIsStatus ==
    (NoActionAnywhere(event) /\ Finished)
    => /\ Returned
       /\ Count(calls, {"describe_instances"}) = 1
       /\ Count(calls, {"start_instances", "stop_instances"}) = 0
       /\ DescribeReported => result = [result |-> "status", state |-> ReportedState]

AllOps == {"describe_instances", "start_instances", "stop_instances", "wait"}

\* C9 as stated: an invocation makes at most two compute-control calls and at
\* most one notification publish call.
C9_TwoAndOne ==
    /\ Count(calls, AllOps) <= 2
    /\ Len(SnsCalls(calls)) <= 1

\* C9 as amended: an invocation makes at most three compute-control calls
\* (describe_instances, start_instances or stop_instances, and one waiter
\* wait) and at most two notification publish calls.
C9_ThreeAndTwo ==
    /\ Count(calls, AllOps) <= 3
    /\ Len(SnsCalls(calls)) <= 2
    /\ Count(calls, {"describe_instances"}) <= 1
    /\ Count(calls, {"start_instances", "stop_instances"}) <= 1
    /\ Count(calls, {"wait"}) <= 1

\* C9 witness: a start has returned after three compute-control calls and
\* two publishes.
C9_Witness ==
    /\ Returned
    /\ Count(calls, AllOps) = 3
    /\ Len(SnsCalls(calls)) = 2

SuccessOf(waiter) == IF waiter = "instance_running" THEN MsgStarted ELSE MsgStopped
ResultOf(waiter) == IF waiter = "instance_running" THEN "started" ELSE "stopped"
ProgressOf(act) == IF act = s_start THEN MsgStarting ELSE MsgStopping

\* The success of `waiter` is reported only after a wait on it that ended, within
\* MaxAttempts polls, on a poll that saw the target state.
ReportedOnlyAfterWait(waiter) ==
    ((\E i \in 1..Len(calls) : Shape(calls[i]) = Publish(SuccessOf(waiter)))
        \/ result.result = ResultOf(waiter))
    => /\ attempts \in 1..MaxAttempts
       /\ compute.polls[attempts] = "success"
       /\ \E i \in 1..Len(calls) :
             /\ calls[i] = WaitCall(waiter)
             /\ \A j \in 1..Len(calls) : Shape(calls[j]) = Publish(SuccessOf(waiter)) => i < j

\* C10: 'STARTED SUCCESS' / 'STOPPED SUCCESS' is published and 'started' /
\* 'stopped' returned only after the instance_running / instance_stopped waiter
\* returned within its 12 attempts; when the start or stop command raises or
\* the waiter gives up, no success is published, the notifications are exactly
\* 'STARTING...' / 'STOPPING...' then the error message, the result is 'error',
\* and the command was issued once.
C10_SuccessOnlyAfterWait ==
    /\ ReportedOnlyAfterWait("instance_running")
    /\ ReportedOnlyAfterWait("instance_stopped")
    /\ (CommandRaised \/ WaitRaised)
       => /\ \A i \in 1..Len(calls) :
                Shape(calls[i]) \notin {Publish(MsgStarted), Publish(MsgStopped)}
          /\ Count(calls, {"start_instances", "stop_instances"}) = 1
          /\ Returned
             => /\ Messages(calls) = <<ProgressOf(action), MsgError(ProviderError)>>
                /\ result.result = "error"

\* C10 witness: a start whose waiter polled MaxAttempts times without seeing
\* 'running' has returned.
C10_Witness ==
    /\ Returned /\ action = s_start
    /\ WaitRaised /\ attempts = MaxAttempts
    /\ compute.polls[MaxAttempts] = "retry"

=============================================================================
